---- MODULE Spec2Model ----
(***************************************************************************)
(* A model of empathetic_reviewer.py: the heuristic classifiers, the       *)
(* prompt builder, review_code / process_json_input and the command line   *)
(* entry point main().                                                     *)
(*                                                                         *)
(* A Python str is a sequence of one-character strings, so that `in`,      *)
(* lower() and concatenation are computed character by character.          *)
(***************************************************************************)
EXTENDS Naturals, Sequences, FiniteSets, TLC

VARIABLES
    comment,        \* SpecSeverity: the argument of _analyze_comment_severity
    severity,       \* SpecSeverity: its return value ("" before the call)
    code_snippet,   \* SpecLanguage: the argument of _get_language_from_code
    language,       \* SpecLanguage: its return value ("" before the call)
    p_input,        \* SpecPrompt: the (code, comments) both processes are given
    hash_order,     \* SpecPrompt: per process, the set iteration order its str hashes give
    prompts,        \* SpecPrompt: per process, the prompts built so far
    fs_input,       \* Spec: what args.input_file names: "missing", "badjson" or "ok"
    file_data,      \* Spec: the JSON object stored in the input file
    args_output,    \* Spec: args.output: "none", "writable" or "nodir"
    GROQ_API_KEY,   \* Spec: whether the credential is available
    set_order,      \* Spec: the set iteration order of this process
    pc,             \* Spec: position of main()
    input_data,     \* Spec: main's local input_data
    reviewer,       \* Spec: main's local reviewer (its client), or NoReviewer
    outcome,        \* Spec: how reviewer.process_json_input(input_data) ended
    requests,       \* Spec: the completion requests sent so far
    stdout,         \* Spec: what was printed to standard output
    stderr,         \* Spec: what was printed to standard error
    out_file,       \* Spec: content written to args.output
    exit_code       \* Spec: the process exit status, meaningful once pc = "exit"

classVars == <<comment, severity, code_snippet, language>>
promptVars == <<p_input, hash_order, prompts>>
cliVars == <<fs_input, file_data, args_output, GROQ_API_KEY, set_order, pc, input_data,
             reviewer, outcome, requests, stdout, stderr, out_file, exit_code>>
vars == <<classVars, promptVars, cliVars>>

-----------------------------------------------------------------------------
(* Bounds *)
MaxCommentFrags == 3   \* fragments concatenated into a comment
MaxCodeFrags == 4      \* fragments concatenated into a code snippet
MaxComments == 2    \* length of a review_comments list
MaxBuilds == 2      \* prompt builds per process in SpecPrompt

-----------------------------------------------------------------------------
(* Python str operations *)

\* str.lower() on one character (the upper-case letters the inputs use)
LowerChar(c) ==
    CASE c = "A" -> "a"
      [] c = "B" -> "b"
      [] c = "C" -> "c"
      [] c = "D" -> "d"
      [] c = "F" -> "f"
      [] c = "O" -> "o"
      [] c = "U" -> "u"
      [] c = "L" -> "l"
      [] OTHER -> c

\* str.lower()
Lower(s) == [i \in 1..Len(s) |-> LowerChar(s[i])]

\* `sub in s` for two str
Contains(s, sub) ==
    \E i \in 1..(Len(s) + 1) :
        /\ i + Len(sub) - 1 <= Len(s)
        /\ SubSeq(s, i, i + Len(sub) - 1) = sub

\* any(pred(x) for x in seq): true iff some element satisfies it
AnyIn(s, indicators) == \E k \in 1..Len(indicators) : Contains(s, indicators[k])

RECURSIVE Concat(_)
Concat(ss) == IF ss = <<>> THEN <<>> ELSE Head(ss) \o Concat(Tail(ss))

-----------------------------------------------------------------------------
(* _analyze_comment_severity *)

harsh_indicators ==
    << <<"b","a","d">>,
       <<"w","r","o","n","g">>,
       <<"t","e","r","r","i","b","l","e">>,
       <<"a","w","f","u","l">>,
       <<"s","t","u","p","i","d">>,
       <<"i","n","e","f","f","i","c","i","e","n","t">>,
       <<"d","o","n","'","t">> >>

neutral_indicators ==
    << <<"c","o","u","l","d">>,
       <<"m","i","g","h","t">>,
       <<"c","o","n","s","i","d","e","r">>,
       <<"s","u","g","g","e","s","t">> >>

\* mutant: the neutral test is made before the harsh one
AnalyzeNeutralFirst(c) ==
    LET comment_lower == Lower(c) IN
    IF AnyIn(comment_lower, neutral_indicators) THEN "neutral"
    ELSE IF AnyIn(comment_lower, harsh_indicators) THEN "harsh"
    ELSE "constructive"

_analyze_comment_severity(c) ==
    LET comment_lower == Lower(c) IN
    IF AnyIn(comment_lower, harsh_indicators) THEN "harsh"
    ELSE IF AnyIn(comment_lower, neutral_indicators) THEN "neutral"
    ELSE "constructive"

-----------------------------------------------------------------------------
(* _get_language_from_code *)

KwDef == <<"d","e","f"," ">>
KwColon == <<":">>
KwFunction == <<"f","u","n","c","t","i","o","n">>
KwBrace == <<"{">>
KwPublicClass == <<"p","u","b","l","i","c"," ","c","l","a","s","s">>
KwPrivate == <<"p","r","i","v","a","t","e"," ">>

\* mutant: the JavaScript test is made before the Python one
LanguageJsFirst(c) ==
    IF Contains(c, KwFunction) /\ Contains(c, KwBrace) THEN "JavaScript"
    ELSE IF Contains(c, KwDef) /\ Contains(c, KwColon) THEN "Python"
    ELSE IF Contains(c, KwPublicClass) \/ Contains(c, KwPrivate) THEN "Java"
    ELSE "Python"

_get_language_from_code(c) ==
    IF Contains(c, KwDef) /\ Contains(c, KwColon) THEN "Python"
    ELSE IF Contains(c, KwFunction) /\ Contains(c, KwBrace) THEN "JavaScript"
    ELSE IF Contains(c, KwPublicClass) \/ Contains(c, KwPrivate) THEN "Java"
    ELSE "Python"

-----------------------------------------------------------------------------
(* Classifier inputs: concatenations of a bounded number of fragments.  A keyword
   may be one fragment or be formed across a fragment boundary ("ba" + "d"),
   and some fragments are upper-cased. *)

CommentFrags ==
    { <<"b","a">>,
      <<"d">>,
      <<"B","A","D">>,
      <<"w","r","o","n","g">>,
      <<"t","e","r","r","i","b","l","e">>,
      <<"a","w","f","u","l">>,
      <<"s","t","u","p","i","d">>,
      <<"i","n","e","f","f","i","c","i","e","n","t">>,
      <<"D","o","n","'","t">>,
      <<"c","o","u","l","d">>,
      <<"m","i","g","h","t">>,
      <<"C","o","n","s","i","d","e","r">>,
      <<"s","u","g","g","e","s","t">>,
      <<" ">>,
      <<"o","k">> }

CodeFrags ==
    { <<"d","e","f"," ">>,
      <<"d","e">>,
      <<"f"," ">>,
      <<"D","E","F"," ">>,
      <<":">>,
      <<"f","u","n","c","t","i","o","n">>,
      <<"{">>,
      <<"p","u","b","l","i","c"," ","c","l","a","s","s">>,
      <<"p","r","i","v","a","t","e"," ">>,
      <<"x">> }

FragSeqs(pool, n) == UNION { [1..k -> pool] : k \in 0..n }

Strings(pool, n) == { Concat(fs) : fs \in FragSeqs(pool, n) }

Labels == {"harsh", "neutral", "constructive"}

Languages == {"Python", "JavaScript", "Java"}

\* every variable of the other specifications keeps one fixed value
IdleClass ==
    /\ comment = <<>> /\ severity = ""
    /\ code_snippet = <<>> /\ language = ""

IdlePrompt ==
    /\ p_input = <<>> /\ hash_order = <<>> /\ prompts = <<>>

IdleCli ==
    /\ fs_input = "" /\ file_data = <<>> /\ args_output = "" /\ GROQ_API_KEY = FALSE
    /\ set_order = <<>> /\ pc = "" /\ input_data = <<>> /\ reviewer = "" /\ outcome = <<>>
    /\ requests = <<>> /\ stdout = <<>> /\ stderr = <<>> /\ out_file = <<>>
    /\ exit_code = 0

-----------------------------------------------------------------------------
(* SpecSeverity: one call of _analyze_comment_severity on any input *)

InitSeverity ==
    /\ comment \in Strings(CommentFrags, MaxCommentFrags)
    /\ severity = ""
    /\ code_snippet = <<>> /\ language = ""
    /\ IdlePrompt /\ IdleCli

AnalyzeCommentSeverity ==
    /\ severity = ""
    /\ severity' = _analyze_comment_severity(comment)
    /\ UNCHANGED <<comment, code_snippet, language, promptVars, cliVars>>

NextSeverity == AnalyzeCommentSeverity

SpecSeverity == InitSeverity /\ [][NextSeverity]_vars

-----------------------------------------------------------------------------
(* SpecLanguage: one call of _get_language_from_code on any input *)

InitLanguage ==
    /\ code_snippet \in Strings(CodeFrags, MaxCodeFrags)
    /\ language = ""
    /\ comment = <<>> /\ severity = ""
    /\ IdlePrompt /\ IdleCli

GetLanguageFromCode ==
    /\ language = ""
    /\ language' = _get_language_from_code(code_snippet)
    /\ UNCHANGED <<code_snippet, comment, severity, promptVars, cliVars>>

NextLanguage == GetLanguageFromCode

SpecLanguage == InitLanguage /\ [][NextLanguage]_vars

-----------------------------------------------------------------------------
(* C6: the severity label is "harsh" whenever the lower-cased comment has a
   harsh keyword as a substring (even beside a neutral keyword), "neutral"
   when it has a neutral keyword and no harsh one, "constructive" when it has
   no indicator keyword; it is always one of the three labels. *)

HarshWords ==
    { <<"b","a","d">>,
      <<"w","r","o","n","g">>,
      <<"t","e","r","r","i","b","l","e">>,
      <<"a","w","f","u","l">>,
      <<"s","t","u","p","i","d">>,
      <<"i","n","e","f","f","i","c","i","e","n","t">>,
      <<"d","o","n","'","t">> }

NeutralWords ==
    { <<"c","o","u","l","d">>,
      <<"m","i","g","h","t">>,
      <<"c","o","n","s","i","d","e","r">>,
      <<"s","u","g","g","e","s","t">> }

HasWord(s, words) ==
    \E w \in words : \E i \in 1..Len(s) :
        /\ i + Len(w) - 1 <= Len(s)
        /\ \A k \in 1..Len(w) : LowerChar(s[i + k - 1]) = w[k]

C6_SeverityByKeyword ==
    severity # "" =>
        /\ severity \in Labels
        /\ HasWord(comment, HarshWords) => severity = "harsh"
        /\ (~HasWord(comment, HarshWords) /\ HasWord(comment, NeutralWords))
               => severity = "neutral"
        /\ (~HasWord(comment, HarshWords) /\ ~HasWord(comment, NeutralWords))
               => severity = "constructive"

\* a comment with both a harsh and a neutral keyword has been classified
C6_Witness ==
    /\ severity = "harsh"
    /\ HasWord(comment, HarshWords)
    /\ HasWord(comment, NeutralWords)

-----------------------------------------------------------------------------
(* C7: the language label follows the fixed order of checks: Python if the
   code has "def " and ":", otherwise JavaScript if it has "function" and "{",
   otherwise Java if it has "public class" or "private ", otherwise Python;
   it is always one of the three labels. *)

Has(s, w) ==
    \E i \in 1..Len(s) :
        /\ i + Len(w) - 1 <= Len(s)
        /\ \A k \in 1..Len(w) : s[i + k - 1] = w[k]

PyMarks(s) == Has(s, <<"d","e","f"," ">>) /\ Has(s, <<":">>)

JsMarks(s) == Has(s, <<"f","u","n","c","t","i","o","n">>) /\ Has(s, <<"{">>)

JavaMarks(s) == Has(s, <<"p","u","b","l","i","c"," ","c","l","a","s","s">>) \/ Has(s, <<"p","r","i","v","a","t","e"," ">>)

C7_LanguageByOrder ==
    language # "" =>
        /\ language \in Languages
        /\ PyMarks(code_snippet) => language = "Python"
        /\ (~PyMarks(code_snippet) /\ JsMarks(code_snippet)) => language = "JavaScript"
        /\ (~PyMarks(code_snippet) /\ ~JsMarks(code_snippet) /\ JavaMarks(code_snippet))
               => language = "Java"
        /\ (~PyMarks(code_snippet) /\ ~JsMarks(code_snippet) /\ ~JavaMarks(code_snippet))
               => language = "Python"

\* code with both the Python and the JavaScript indicators has been labelled
C7_Witness ==
    /\ language = "Python"
    /\ PyMarks(code_snippet)
    /\ JsMarks(code_snippet)

-----------------------------------------------------------------------------
(* Values decoded from JSON, as Python objects *)

JStr(s) == [t |-> "str", v |-> s]
JNum == [t |-> "num", v |-> <<>>]
JNull == [t |-> "null", v |-> <<>>]
JList(items) == [t |-> "list", v |-> items]

\* Exceptions, all subclasses of Exception
NoExc == [type |-> "", msg |-> ""]
Exc(type, msg) == [type |-> type, msg |-> msg]

-----------------------------------------------------------------------------
(* _create_empathetic_prompt *)

\* the six orders in which a process may iterate a set of the three labels:
\* str hashes are salted per process (PYTHONHASHSEED)
Orders == { o \in [1..3 -> Labels] : \A i, j \in 1..3 : o[i] = o[j] => i = j }

\* set(xs)
ToSet(xs) == { xs[i] : i \in 1..Len(xs) }

\* iterating a set of labels: the elements, in the order of this process
SetIter(S, order) == SelectSeq(order, LAMBDA x : x \in S)

\* sep.join(xs), as the sequence of its pieces
RECURSIVE Join(_, _)
Join(sep, xs) ==
    IF xs = <<>> THEN <<>>
    ELSE IF Len(xs) = 1 THEN <<xs[1]>>
    ELSE <<xs[1], sep>> \o Join(sep, Tail(xs))

\* language.lower()
LowerLabel(l) ==
    CASE l = "Python" -> "python"
      [] l = "JavaScript" -> "javascript"
      [] l = "Java" -> "java"

\* the exception the prompt builder raises on these values, NoExc if none:
\* `'def ' in code_snippet` needs a container, the comprehension an iterable,
\* comment.lower() a str
PromptError(code, comments) ==
    IF code.t # "str"
    THEN Exc("TypeError", "argument of type is not iterable")
    ELSE IF comments.t # "list"
    THEN Exc("TypeError", "object is not iterable")
    ELSE IF \E i \in 1..Len(comments.v) : comments.v[i].t # "str"
    THEN Exc("AttributeError", "object has no attribute 'lower'")
    ELSE NoExc

\* the interpolated fields of the prompt, in template order; the text between
\* them is the same in every prompt
_create_empathetic_prompt(code, comments, order) ==
    LET lang == _get_language_from_code(code.v)
        severity_analysis ==
            [i \in 1..Len(comments.v) |-> _analyze_comment_severity(comments.v[i].v)]
    IN  [ language |-> lang,
          n_comments |-> Len(comments.v),
          severity_levels |-> Join(", ", SetIter(ToSet(severity_analysis), order)),
          fence |-> LowerLabel(lang),
          code_snippet |-> code.v,
          comments |-> [i \in 1..Len(comments.v) |-> <<i, ". ", comments.v[i].v>>] ]

-----------------------------------------------------------------------------
(* Concrete requests *)

CodePython == <<"d","e","f"," ","f","(",")",":">>
CodeJavaScript == <<"f","u","n","c","t","i","o","n"," ","f","(",")","{">>
CommentHarsh == <<"B","a","d">>
CommentNeutral == <<"c","o","u","l","d">>
CommentConstructive == <<"o","k">>

CommentStrings == {JStr(CommentHarsh), JStr(CommentNeutral), JStr(CommentConstructive)}

Lists(items, n) == { JList(xs) : xs \in UNION { [1..k -> items] : k \in 0..n } }

-----------------------------------------------------------------------------
(* SpecPrompt: two processes build prompts from the same input *)

Procs == {1, 2}
NotStarted == <<>>

InitPrompt ==
    /\ p_input \in {JStr(CodePython), JStr(CodeJavaScript)} \X Lists(CommentStrings, MaxComments)
    /\ hash_order = [p \in Procs |-> NotStarted]
    /\ prompts = [p \in Procs |-> <<>>]
    /\ IdleClass /\ IdleCli

\* interpreter start-up of process p fixes its hash salt
StartProcess(p) ==
    /\ hash_order[p] = NotStarted
    /\ \E o \in Orders : hash_order' = [hash_order EXCEPT ![p] = o]
    /\ UNCHANGED <<p_input, prompts, classVars, cliVars>>

CreateEmpatheticPrompt(p) ==
    /\ hash_order[p] # NotStarted
    /\ Len(prompts[p]) < MaxBuilds
    /\ prompts' = [prompts EXCEPT ![p] =
           Append(@, _create_empathetic_prompt(p_input[1], p_input[2], hash_order[p]))]
    /\ UNCHANGED <<p_input, hash_order, classVars, cliVars>>

NextPrompt == \E p \in Procs : StartProcess(p) \/ CreateEmpatheticPrompt(p)

SpecPrompt == InitPrompt /\ [][NextPrompt]_vars

(* C5: two invocations of the prompt builder with identical inputs, in the
   same or in different process runs, produce identical prompt text, also
   when comments of two or three different severities are present. *)
C5_PromptDeterministic ==
    \A p, q \in Procs :
        \A i \in 1..Len(prompts[p]) : \A j \in 1..Len(prompts[q]) :
            prompts[p][i] = prompts[q][j]

-----------------------------------------------------------------------------
(* review_code and process_json_input *)

ErrorPrefix == "Error generating empathetic review: "
SystemText == "You are an senior software engineer and mentor ..."
ModelId == "openai/gpt-oss-20b"

\* f"Error generating empathetic review: {str(e)}", as the sequence of its pieces
ErrorString(e) == <<ErrorPrefix, e.msg>>

\* what client.chat.completions.create does when called with a usable client:
\* it raises, or returns a response with these choices' message contents
NoCall == [kind |-> "none", exc |-> NoExc, choices |-> <<>>]

ServiceOutcomes ==
    { [kind |-> "raise", exc |-> e, choices |-> <<>>] :
          e \in { Exc("APIConnectionError", "Connection error."),
                  Exc("RateLimitError", "Rate limit reached") } }
    \cup
    { [kind |-> "ok", exc |-> NoExc, choices |-> c] :
          c \in { <<>>, << <<"OK">> >>, << <<"OK">>, <<"ALT">> >>, << <<"ALT">>, <<"OK">> >> } }

\* a client built without a credential fails every call
CallOutcome(client, svc) ==
    IF client = "nokey"
    THEN [kind |-> "raise", exc |-> Exc("AuthenticationError", "Invalid API Key"),
          choices |-> <<>>]
    ELSE svc

CompletionRequest(prompt) ==
    [ model |-> ModelId,
      messages |-> << [role |-> "system", content |-> SystemText],
                      [role |-> "user", content |-> prompt] >>,
      stream |-> FALSE ]

\* The result of review_code: `raised` is the exception that leaves it (NoExc:
\* it returned `value`), `caught` the exception its handler caught, `sent` the
\* completion requests it made and `call` what the completion call did.
Returned(value, caught, sent, call) ==
    [raised |-> NoExc, value |-> value, caught |-> caught, sent |-> sent, call |-> call]

Raised(e, sent, call) ==
    [raised |-> e, value |-> <<>>, caught |-> NoExc, sent |-> sent, call |-> call]

\* mutant: the prompt is built before the try block, so its exceptions escape
ReviewCodePromptOutsideTry(client, code, review_comments, order, svc) ==
    LET e == PromptError(code, review_comments) IN
    IF e # NoExc THEN Raised(e, <<>>, NoCall)
    ELSE
        LET prompt == _create_empathetic_prompt(code, review_comments, order)
            sent == <<CompletionRequest(prompt)>>
            call == CallOutcome(client, svc)
        IN  IF call.kind = "raise"
            THEN Returned(ErrorString(call.exc), call.exc, sent, call)
            ELSE IF call.choices = <<>>
            THEN LET ie == Exc("IndexError", "list index out of range")
                 IN  Returned(ErrorString(ie), ie, sent, call)
            ELSE Returned(call.choices[1], NoExc, sent, call)

\* mutant: the last choice is returned instead of the first
ReviewCodeLastChoice(client, code, review_comments, order, svc) ==
    LET e == PromptError(code, review_comments) IN
    IF e # NoExc THEN Returned(ErrorString(e), e, <<>>, NoCall)
    ELSE
        LET prompt == _create_empathetic_prompt(code, review_comments, order)
            sent == <<CompletionRequest(prompt)>>
            call == CallOutcome(client, svc)
        IN  IF call.kind = "raise"
            THEN Returned(ErrorString(call.exc), call.exc, sent, call)
            ELSE IF call.choices = <<>>
            THEN LET ie == Exc("IndexError", "list index out of range")
                 IN  Returned(ErrorString(ie), ie, sent, call)
            ELSE Returned(call.choices[Len(call.choices)], NoExc, sent, call)

review_code(client, code, review_comments, order, svc) ==
    LET e == PromptError(code, review_comments) IN
    IF e # NoExc THEN Returned(ErrorString(e), e, <<>>, NoCall)
    ELSE
        LET prompt == _create_empathetic_prompt(code, review_comments, order)
            sent == <<CompletionRequest(prompt)>>
            call == CallOutcome(client, svc)
        IN  IF call.kind = "raise"
            THEN Returned(ErrorString(call.exc), call.exc, sent, call)
            ELSE IF call.choices = <<>>
            THEN LET ie == Exc("IndexError", "list index out of range")
                 IN  Returned(ErrorString(ie), ie, sent, call)
            ELSE Returned(call.choices[1], NoExc, sent, call)

RequiredKeys == {"code_snippet", "review_comments"}

\* mutant: a missing key is reported in band instead of raised
ProcessValidationInBand(client, json_data, order, svc) ==
    IF ~(RequiredKeys \subseteq json_data.keys)
    THEN LET e == Exc("ValueError",
                      "JSON must contain 'code_snippet' and 'review_comments' keys")
         IN  Returned(ErrorString(e), e, <<>>, NoCall)
    ELSE review_code(client, json_data.code_snippet, json_data.review_comments, order, svc)

process_json_input(client, json_data, order, svc) ==
    IF ~(RequiredKeys \subseteq json_data.keys)
    THEN Raised(Exc("ValueError",
                    "JSON must contain 'code_snippet' and 'review_comments' keys"),
                <<>>, NoCall)
    ELSE review_code(client, json_data.code_snippet, json_data.review_comments, order, svc)

-----------------------------------------------------------------------------
(* main *)

InputPath == "input.json"
OutputPath == "out/review.md"

NotFoundMsg == <<"Error: Input file '", InputPath, "' not found">>
InvalidJsonMsg == <<"Error: Invalid JSON in '", InputPath, "'">>
GenericMsg(e) == <<"Error: ", e.msg>>
WrittenMsg == <<"Empathetic review written to ", OutputPath>>

NoReviewer == ""
NoData == <<>>
NoOutcome == <<>>

\* the JSON objects the input file may hold
JsonObject(keys, code, comments) ==
    [ keys |-> keys,
      code_snippet |-> IF "code_snippet" \in keys THEN code ELSE JNull,
      review_comments |-> IF "review_comments" \in keys THEN comments ELSE JNull ]

CodeValues == {JStr(CodePython), JStr(CodeJavaScript), JNum}

CommentsValues == Lists(CommentStrings \cup {JNum}, MaxComments) \cup {JNull}

FileObjects ==
    { JsonObject(k, c, m) : k \in SUBSET RequiredKeys, c \in CodeValues, m \in CommentsValues }

Init ==
    /\ fs_input \in {"missing", "badjson", "ok"}
    /\ file_data \in (IF fs_input = "ok" THEN FileObjects ELSE {NoData})
    /\ args_output \in {"none", "writable", "nodir", "denied"}
    /\ GROQ_API_KEY \in BOOLEAN
    /\ set_order \in Orders
    /\ pc = "start"
    /\ input_data = NoData
    /\ reviewer = NoReviewer
    /\ outcome = NoOutcome
    /\ requests = <<>>
    /\ stdout = <<>>
    /\ stderr = <<>>
    /\ out_file = <<>>
    /\ exit_code = 0
    /\ IdleClass /\ IdlePrompt

envVars == <<fs_input, file_data, args_output, GROQ_API_KEY, set_order>>

\* print(msg, file=sys.stderr); sys.exit(1)
Fail(msg) ==
    /\ stderr' = Append(stderr, msg)
    /\ exit_code' = 1
    /\ pc' = "exit"

\* mutant: the generic handler comes first and takes the JSON error
LoadInputGenericFirst ==
    /\ pc = "start"
    /\ \/ /\ fs_input = "missing"
          /\ Fail(NotFoundMsg)
          /\ UNCHANGED input_data
       \/ /\ fs_input = "badjson"
          /\ Fail(GenericMsg(Exc("JSONDecodeError", "Expecting value")))
          /\ UNCHANGED input_data
       \/ /\ fs_input = "ok"
          /\ input_data' = file_data
          /\ pc' = "loaded"
          /\ UNCHANGED <<stderr, exit_code>>
    /\ UNCHANGED <<reviewer, outcome, requests, stdout, out_file, envVars,
                   classVars, promptVars>>

\* with open(args.input_file, 'r') as f: input_data = json.load(f)
LoadInput ==
    /\ pc = "start"
    /\ \/ /\ fs_input = "missing"
          /\ Fail(NotFoundMsg)
          /\ UNCHANGED input_data
       \/ /\ fs_input = "badjson"
          /\ Fail(InvalidJsonMsg)
          /\ UNCHANGED input_data
       \/ /\ fs_input = "ok"
          /\ input_data' = file_data
          /\ pc' = "loaded"
          /\ UNCHANGED <<stderr, exit_code>>
    /\ UNCHANGED <<reviewer, outcome, requests, stdout, out_file, envVars,
                   classVars, promptVars>>

\* mutant: without a credential the client is built with a default key
ConstructDefaultKey ==
    /\ pc = "loaded"
    /\ reviewer' = "client"
    /\ pc' = "constructed"
    /\ UNCHANGED <<stderr, exit_code>>
    /\ UNCHANGED <<input_data, outcome, requests, stdout, out_file, envVars,
                   classVars, promptVars>>

\* reviewer = EmpathethicCodeReviewer(): Groq(api_key=None or os.getenv(...)).
\* Without a credential the library either raises in the constructor, or builds
\* a client whose calls fail.
Construct ==
    /\ pc = "loaded"
    /\ \/ /\ GROQ_API_KEY
          /\ reviewer' = "client"
          /\ pc' = "constructed"
          /\ UNCHANGED <<stderr, exit_code>>
       \/ /\ ~GROQ_API_KEY
          /\ reviewer' = "nokey"
          /\ pc' = "constructed"
          /\ UNCHANGED <<stderr, exit_code>>
       \/ /\ ~GROQ_API_KEY
          /\ Fail(GenericMsg(Exc("GroqError", "The api_key client option must be set")))
          /\ UNCHANGED reviewer
    /\ UNCHANGED <<input_data, outcome, requests, stdout, out_file, envVars,
                   classVars, promptVars>>

\* result = reviewer.process_json_input(input_data)
Process ==
    /\ pc = "constructed"
    /\ \E svc \in ServiceOutcomes :
         LET r == process_json_input(reviewer, input_data, set_order, svc) IN
         /\ outcome' = r
         /\ requests' = requests \o r.sent
         /\ IF r.raised # NoExc
            THEN Fail(GenericMsg(r.raised))
            ELSE /\ pc' = "processed"
                 /\ UNCHANGED <<stderr, exit_code>>
    /\ UNCHANGED <<input_data, reviewer, stdout, out_file, envVars, classVars, promptVars>>

\* mutant: main inspects the result and reports an in-band error as a failure
OutputInspectsResult ==
    /\ pc = "processed"
    /\ IF outcome.value[1] = ErrorPrefix
       THEN /\ Fail(outcome.value)
            /\ UNCHANGED <<stdout, out_file>>
       ELSE \/ /\ args_output = "none"
               /\ stdout' = Append(stdout, outcome.value)
               /\ pc' = "exit"
               /\ UNCHANGED <<out_file, stderr, exit_code>>
            \/ /\ args_output = "writable"
               /\ out_file' = Append(out_file, outcome.value)
               /\ stdout' = Append(stdout, WrittenMsg)
               /\ pc' = "exit"
               /\ UNCHANGED <<stderr, exit_code>>
            \/ /\ args_output = "nodir"
               /\ Fail(NotFoundMsg)
               /\ UNCHANGED <<stdout, out_file>>
            \/ /\ args_output = "denied"
               /\ Fail(GenericMsg(Exc("PermissionError", "[Errno 13] Permission denied")))
               /\ UNCHANGED <<stdout, out_file>>
    /\ UNCHANGED <<input_data, reviewer, outcome, requests, envVars, classVars, promptVars>>

\* write result to args.output, or print it
Output ==
    /\ pc = "processed"
    /\ \/ /\ args_output = "none"
          /\ stdout' = Append(stdout, outcome.value)
          /\ pc' = "exit"
          /\ UNCHANGED <<out_file, stderr, exit_code>>
       \/ /\ args_output = "writable"
          /\ out_file' = Append(out_file, outcome.value)
          /\ stdout' = Append(stdout, WrittenMsg)
          /\ pc' = "exit"
          /\ UNCHANGED <<stderr, exit_code>>
       \/ /\ args_output = "nodir"      \* open() raises FileNotFoundError
          /\ Fail(NotFoundMsg)
          /\ UNCHANGED <<stdout, out_file>>
       \/ /\ args_output = "denied"     \* open() raises PermissionError
          /\ Fail(GenericMsg(Exc("PermissionError", "[Errno 13] Permission denied")))
          /\ UNCHANGED <<stdout, out_file>>
    /\ UNCHANGED <<input_data, reviewer, outcome, requests, envVars, classVars, promptVars>>

Next == LoadInput \/ Construct \/ Process \/ Output

Spec == Init /\ [][Next]_vars

-----------------------------------------------------------------------------
(* Claims about process_json_input / review_code and main, under Spec *)

Processed == outcome # NoOutcome

HasBothKeys == RequiredKeys \subseteq input_data.keys

\* the input file exists, is JSON and holds both required keys
ValidInput == fs_input = "ok" /\ RequiredKeys \subseteq file_data.keys

\* the exception raised while building the prompt or by the completion call
FailureRaised ==
    LET e == PromptError(input_data.code_snippet, input_data.review_comments) IN
    IF e # NoExc THEN e
    ELSE IF outcome.call.kind = "raise" THEN outcome.call.exc
    ELSE NoExc

(* C1: for a request with both keys, whatever their values, if building the
   prompt or the completion call raises, process_json_input does not raise:
   it returns the error prefix followed by the exception's message. *)
C1_FailureReturnedInBand ==
    (Processed /\ HasBothKeys /\ FailureRaised # NoExc) =>
        /\ outcome.raised = NoExc
        /\ outcome.value = <<ErrorPrefix, FailureRaised.msg>>

\* building the prompt raised on a code_snippet that is not a str
C1_Witness ==
    /\ Processed /\ HasBothKeys
    /\ input_data.code_snippet.t = "num"
    /\ outcome.value = <<ErrorPrefix, "argument of type is not iterable">>

(* C2 as stated: no exception ever escapes process_json_input, for every
   request object, including one that lacks a required key. *)
C2_NoExceptionEscapes == Processed => outcome.raised = NoExc

(* C2 amended: an exception escapes process_json_input exactly when the
   request lacks code_snippet or review_comments: then it is a ValueError,
   nothing is returned and no request is sent, and main reports it as
   "Error: <message>" on standard error with exit code 1. *)
C2_OnlyValidationEscapes ==
    Processed =>
        /\ outcome.raised # NoExc <=> ~HasBothKeys
        /\ outcome.raised # NoExc =>
              /\ outcome.raised.type = "ValueError"
              /\ outcome.value = <<>>
              /\ requests = <<>>
              /\ pc = "exit" /\ exit_code = 1
              /\ stderr = << <<"Error: ", outcome.raised.msg>> >>
              /\ stdout = <<>> /\ out_file = <<>>

\* a request without code_snippet was processed
C2_Witness ==
    /\ Processed
    /\ "code_snippet" \notin input_data.keys
    /\ outcome.raised.type = "ValueError"

\* the result string was printed, or written to the output file and confirmed
Delivered ==
    /\ exit_code = 0
    /\ stderr = <<>>
    /\ \/ args_output = "none" /\ stdout = <<outcome.value>> /\ out_file = <<>>
       \/ args_output # "none" /\ out_file = <<outcome.value>> /\ stdout = <<WrittenMsg>>

\* the run ended in main's handlers before anything was written or printed
FailedWith(msg) ==
    /\ exit_code = 1
    /\ stderr = <<msg>>
    /\ stdout = <<>> /\ out_file = <<>>

(* C3 as stated: without a credential, a run on a valid input file ends with
   the in-band error string written or printed as the review, wherever the
   credential failure is raised, never with an exception escaping the
   constructor or main's generic "Error: <message>" exit. *)
C3_MissingCredentialInBand ==
    (~GROQ_API_KEY /\ ValidInput /\ pc = "exit") =>
        /\ reviewer # NoReviewer
        /\ Processed
        /\ outcome.value[1] = ErrorPrefix
        /\ Delivered

(* C3 amended: without a credential, a run on a valid input file ends with
   the in-band error string written or printed as the review when the
   credential failure is raised at the completion call and the output can be
   opened; when it is raised at client construction it escapes the
   constructor, no request is sent and main exits 1 with "Error: <message>". *)
C3_MissingCredentialByPlace ==
    (~GROQ_API_KEY /\ ValidInput /\ pc = "exit") =>
        \/ /\ reviewer = NoReviewer
           /\ ~Processed
           /\ requests = <<>>
           /\ FailedWith(<<"Error: ", "The api_key client option must be set">>)
        \/ /\ reviewer = "nokey"
           /\ Processed
           /\ outcome.raised = NoExc
           /\ outcome.value[1] = ErrorPrefix
           /\ args_output \in {"none", "writable"} => Delivered
           /\ args_output \in {"nodir", "denied"} => exit_code = 1

\* the credential failure was raised at the call and written to the output file
C3_Witness ==
    /\ ~GROQ_API_KEY /\ ValidInput /\ pc = "exit"
    /\ reviewer = "nokey"
    /\ outcome.value = <<ErrorPrefix, "Invalid API Key">>
    /\ out_file = <<outcome.value>>

CallSucceeded == Processed /\ outcome.call.kind = "ok" /\ outcome.call.choices # <<>>

(* C4: for a request with both keys whose completion call succeeds, exactly
   one non-streaming request was made, after validation passed and the prompt
   was built; its user message is exactly the built prompt and the result is
   exactly the content of the first choice. *)
C4_OneRequestFirstChoice ==
    /\ Len(requests) <= 1
    /\ CallSucceeded =>
        /\ HasBothKeys
        /\ PromptError(input_data.code_snippet, input_data.review_comments) = NoExc
        /\ Len(requests) = 1
        /\ requests[1].stream = FALSE
        /\ { m \in ToSet(requests[1].messages) : m.role = "user" }
             = { [ role |-> "user",
                   content |-> _create_empathetic_prompt(input_data.code_snippet,
                                   input_data.review_comments, set_order) ] }
        /\ outcome.raised = NoExc
        /\ outcome.value = outcome.call.choices[1]

\* the service answered with two choices, the first one "OK"
C4_Witness ==
    /\ CallSucceeded
    /\ outcome.call.choices = << <<"OK">>, <<"ALT">> >>
    /\ outcome.value = <<"OK">>

(* C8: a run whose input path does not exist prints the "not found" message
   to standard error and exits 1; a run whose input is not valid JSON prints
   the "Invalid JSON" message and exits 1; in both cases no reviewer is
   constructed, no request is sent and no output is written. *)
C8_InputErrors ==
    (fs_input \in {"missing", "badjson"} /\ pc # "start") =>
        /\ pc = "exit"
        /\ exit_code = 1
        /\ fs_input = "missing" =>
              stderr = << <<"Error: Input file '", InputPath, "' not found">> >>
        /\ fs_input = "badjson" =>
              stderr = << <<"Error: Invalid JSON in '", InputPath, "'">> >>
        /\ reviewer = NoReviewer
        /\ requests = <<>>
        /\ stdout = <<>> /\ out_file = <<>>

\* a run on an input file that is not JSON has ended
C8_Witness ==
    /\ fs_input = "badjson"
    /\ pc = "exit"
    /\ exit_code = 1

CallFailed == Processed /\ outcome.call.kind = "raise"

(* C9 as stated: when the completion call fails for a valid input file, main
   writes the in-band error string to the output path (and prints the
   confirmation) or prints it, writes nothing to standard error and the
   process ends with exit code 0. *)
C9_InBandErrorExitsZero ==
    (ValidInput /\ CallFailed /\ pc = "exit") =>
        /\ outcome.value[1] = ErrorPrefix
        /\ Delivered

(* C9 amended: the same, provided the output path, when given, can be opened
   for writing; when it cannot, the run exits 1 through main's handlers and
   nothing is written or printed to standard output. *)
C9_InBandErrorLikeReview ==
    (ValidInput /\ CallFailed /\ pc = "exit") =>
        /\ outcome.value[1] = ErrorPrefix
        /\ args_output \in {"none", "writable"} => Delivered
        /\ args_output \in {"nodir", "denied"} =>
              /\ exit_code = 1
              /\ stdout = <<>> /\ out_file = <<>>

\* a service failure was written to the output file and the run exited 0
C9_Witness ==
    /\ ValidInput /\ CallFailed /\ pc = "exit"
    /\ reviewer = "client"
    /\ args_output = "writable"
    /\ out_file = << <<ErrorPrefix, "Connection error.">> >>
    /\ exit_code = 0

(* C10: the message "Error: Input file '<path>' not found" is printed only
   when the input file itself does not exist, hence only before any
   completion request was sent. *)
C10_NotFoundOnlyForInput ==
    (\E i \in 1..Len(stderr) : stderr[i] = NotFoundMsg) =>
        /\ fs_input = "missing"
        /\ requests = <<>>

====
